---- MODULE Spec2Model ----
(***************************************************************************)
(* Sensor Hub: the sensor registry (load_sensors), the request handlers of *)
(* the two front ends (app.py: Flask, main.py: FastAPI), the DHT22 sensor  *)
(* (sensors/dht22.py) and the teardown pass.                               *)
(*                                                                         *)
(* A sensor instance is identified by the index of the configuration entry *)
(* it was constructed from.  The `sensors` dict is a sequence of           *)
(* [key, val] entries in insertion order (a Python dict keeps the position *)
(* of a key that is assigned again).                                       *)
(***************************************************************************)
EXTENDS Integers, Sequences, FiniteSets

\* ---------------------------------------------------------------- bounds
MaxSpecs   == 3      \* longest configuration list of the lifecycle specification
MaxSensors == 2      \* longest configuration list of the serving specification
MaxReq     == 2      \* requests handled during one run of the service

\* ------------------------------------------------------------ input sets
Ids        == {"a", "b"}                  \* identifiers used in config.yaml
Targets    == Ids \cup {"ghost"}          \* <sensor_id> of a request path
TypeTags   == {"DHT22", "BME280"}         \* declared type tags
Frontends  == {"flask", "fastapi"}
Kinds      == {"health", "list", "data", "info", "legacy"}
API_KEY    == "Bearer key"
Credentials == {"none", API_KEY, "Bearer wrong"}   \* the Authorization header
\* what the adafruit_dht driver does when temperature / humidity are accessed
DriverOutcomes == {"ok", "none", "runtime_msg", "runtime_noargs", "other_exc"}

SensorSpecs == [id : Ids, type : TypeTags, enabled : BOOLEAN, pinOk : BOOLEAN]

SeqsUpTo(S, n) == UNION {[1..k -> S] : k \in 0..n}

VARIABLES
    frontend,    \* which front end runs: "flask" (app.py) or "fastapi" (main.py)
    config,      \* config['sensors']: the ordered list of sensor specs
    phase,       \* "loading", "serving", "teardown", "stopped"
    sensors,     \* the module-level dict: sequence of [key, val]
    created,     \* instances whose constructor returned
    cleanupPos,  \* position of the teardown loop in sensors.values()
    cleanupLog,  \* cleanup() calls made so far: sequence of [inst, exitOk]
    reqs         \* the requests: their handler's local state

vars == <<frontend, config, phase, sensors, created, cleanupPos, cleanupLog, reqs>>

\* ------------------------------------------------------------- dict helpers
Keys(d) == {d[i].key : i \in 1..Len(d)}

PosOf(d, k) == CHOOSE i \in 1..Len(d) : d[i].key = k

\* d[k] = v
DictSet(d, k, v) ==
    IF k \in Keys(d)
    THEN [i \in 1..Len(d) |-> IF d[i].key = k THEN [key |-> k, val |-> v] ELSE d[i]]
    ELSE Append(d, [key |-> k, val |-> v])

\* ------------------------------------------------------ sensors/dht22.py
\* import_module(f"sensors.{type.lower()}") and getattr(module, f"{type}Sensor"):
\* the only sensor module of the repository is sensors/dht22.py
ResolveClass(type) ==
    IF type = "DHT22" THEN "DHT22Sensor" ELSE "ImportError"

\* DHT22Sensor.__init__: getattr(board, pin_name) and adafruit_dht.DHT22(pin)
\* raise when the pin cannot be resolved or acquired
DHT22Sensor_init(spec) ==
    IF spec.pinOk THEN "constructed" ELSE "raised"

\* DHT22Sensor.get_info of the instance built from config entry inst
get_info(cfg, inst) ==
    [sensor_id |-> cfg[inst].id, type |-> "DHT22", enabled |-> cfg[inst].enabled]

\* DHT22Sensor.read, given what the driver does.  The handler of RuntimeError
\* formats error.args[0]; with empty args that raises IndexError inside the
\* handler, which the later `except Exception` clause of the same try does
\* not catch.
DHT22Sensor_read(outcome) ==
    CASE outcome = "ok" ->
            [raised |-> FALSE, success |-> TRUE, error |-> ""]
      [] outcome = "none" ->
            [raised |-> FALSE, success |-> FALSE,
             error |-> "Failed to retrieve data from sensor"]
      [] outcome = "runtime_msg" ->
            [raised |-> FALSE, success |-> FALSE, error |-> "RuntimeError: msg"]
      [] outcome = "runtime_noargs" ->
            [raised |-> TRUE, success |-> FALSE,
             error |-> "tuple index out of range"]
      [] outcome = "other_exc" ->
            [raised |-> FALSE, success |-> FALSE, error |-> "Exception: msg"]

\* the same method with a mutation: the try block has no handler
DHT22Sensor_cleanup_nocatch(exitOk) ==
    IF exitOk THEN "returned" ELSE "raised"

\* DHT22Sensor.cleanup: self.sensor.exit() inside try / except Exception
DHT22Sensor_cleanup(exitOk) ==
    IF exitOk THEN "returned"      \* logger.info(... cleaned up)
    ELSE "returned"                \* logger.error(...): the failure is swallowed

\* ------------------------------------------------------------ load_sensors
\* the same iteration with a mutation: no try / except around the body
LoadOneNoCatch(st, cfg, i) ==
    LET spec == cfg[i] IN
    IF ~spec.enabled THEN st
    ELSE IF ResolveClass(spec.type) = "ImportError" THEN [st EXCEPT !.raised = TRUE]
    ELSE IF DHT22Sensor_init(spec) = "raised" THEN [st EXCEPT !.raised = TRUE]
    ELSE [st EXCEPT !.sensors = DictSet(st.sensors, spec.id, i),
                    !.created = st.created \cup {i}]

\* one iteration of the loop of load_sensors over config['sensors']
LoadOne(st, cfg, i) ==
    LET spec == cfg[i] IN
    IF ~spec.enabled THEN st                                      \* continue
    ELSE IF ResolveClass(spec.type) = "ImportError" THEN st        \* except: logged
    ELSE IF DHT22Sensor_init(spec) = "raised" THEN st              \* except: logged
    ELSE [st EXCEPT !.sensors = DictSet(st.sensors, spec.id, i),
                    !.created = st.created \cup {i}]

RECURSIVE LoadFrom(_, _, _)
LoadFrom(st, cfg, i) ==
    IF i > Len(cfg) \/ st.raised THEN st
    ELSE LoadFrom(LoadOne(st, cfg, i), cfg, i + 1)

LoadAll(cfg) ==
    LoadFrom([sensors |-> <<>>, created |-> {}, raised |-> FALSE], cfg, 1)

\* ---------------------------------------------------------------- requests
IdleReq ==
    [pc |-> "idle", kind |-> "health", cred |-> "none", target |-> "ghost",
     pos |-> 0, healthy |-> 0, unhealthy |-> 0, status |-> <<>>,
     reads |-> <<>>, infos |-> 0, raisedSeen |-> FALSE, late |-> FALSE,
     overall |-> "", code |-> 0, total |-> 0]

Reqs == 1..MaxReq

Reading(r) == reqs[r].pc = "reading"

\* ------------------------------------------------------------- lifecycle
InitWith(cfgs) ==
    /\ frontend \in Frontends
    /\ config \in cfgs
    /\ phase = "loading"
    /\ sensors = <<>>
    /\ created = {}
    /\ cleanupPos = 0
    /\ cleanupLog = <<>>
    /\ reqs = [r \in Reqs |-> IdleReq]

\* app.py:68 (module level) and main.py startup_event: load_sensors() runs to
\* completion before the server accepts a request
load_sensors ==
    /\ phase = "loading"
    /\ LET st == LoadAll(config) IN
         /\ sensors' = st.sensors
         /\ created' = st.created
         /\ phase' = IF st.raised THEN "crashed" ELSE "serving"
    /\ UNCHANGED <<frontend, config, cleanupPos, cleanupLog, reqs>>

\* app.run returns (app.py:185) / uvicorn runs the shutdown event (main.py:100).
\* uvicorn runs shutdown_event on the event loop the handlers run on, after
\* the handlers have returned; werkzeug's handler threads are not joined.
Shutdown ==
    /\ phase = "serving"
    /\ frontend = "fastapi" => \A r \in Reqs : ~Reading(r)
    /\ phase' = IF Len(sensors) = 0 THEN "stopped" ELSE "teardown"
    /\ cleanupPos' = 1
    /\ UNCHANGED <<frontend, config, sensors, created, cleanupLog, reqs>>

\* one iteration of `for sensor in sensors.values(): sensor.cleanup()`;
\* a cleanup() that raises ends the loop
CleanupStep(exitOk) ==
    /\ phase = "teardown"
    /\ cleanupPos <= Len(sensors)
    /\ LET inst == sensors[cleanupPos].val
           res  == DHT22Sensor_cleanup(exitOk) IN
         /\ cleanupLog' = Append(cleanupLog, [inst |-> inst, exitOk |-> exitOk])
         /\ cleanupPos' = cleanupPos + 1
         /\ phase' = IF res = "raised" \/ cleanupPos = Len(sensors)
                     THEN "stopped" ELSE "teardown"
    /\ UNCHANGED <<frontend, config, sensors, created, reqs>>

\* ------------------------------------------------------- request handlers
\* the same check with a mutation: an absent header is let through
verify_api_key_lax(cred) ==
    cred = "none" \/ cred = API_KEY

\* `api_key != API_KEY: abort(401)` (app.py) / verify_api_key (main.py)
verify_api_key(cred) ==
    cred = API_KEY

\* the same expression with a mutation: the two tests are swapped
OverallStatusSwapped(healthy_count, unhealthy_count) ==
    IF healthy_count = 0 THEN "unhealthy"
    ELSE IF unhealthy_count > 0 THEN "degraded"
    ELSE "healthy"

\* the same expression with a mutation: > written as >=
OverallStatusGe(healthy_count, unhealthy_count) ==
    IF unhealthy_count = 0 THEN "healthy"
    ELSE IF healthy_count >= 0 THEN "degraded"
    ELSE "unhealthy"

\* 'healthy' if unhealthy_count == 0 else 'degraded' if healthy_count > 0
\* else 'unhealthy'
OverallStatus(healthy_count, unhealthy_count) ==
    IF unhealthy_count = 0 THEN "healthy"
    ELSE IF healthy_count > 0 THEN "degraded"
    ELSE "unhealthy"

\* the same loop body with a mutation: no try / except around sensor.read()
HealthOutcomeNoCatch(res) ==
    IF res.raised
    THEN [healthy |-> 0, unhealthy |-> 0, abort |-> TRUE,
          status |-> [tag |-> "error", msg |-> res.error]]
    ELSE IF res.success
    THEN [healthy |-> 1, unhealthy |-> 0, abort |-> FALSE,
          status |-> [tag |-> "healthy", msg |-> ""]]
    ELSE [healthy |-> 0, unhealthy |-> 1, abort |-> FALSE,
          status |-> [tag |-> "unhealthy", msg |-> ""]]

\* the body of the loop of check_health / health_check for one read
HealthOutcome(res) ==
    IF res.raised                      \* except Exception as e
    THEN [healthy |-> 0, unhealthy |-> 1, abort |-> FALSE,
          status |-> [tag |-> "error", msg |-> res.error]]
    ELSE IF res.success
    THEN [healthy |-> 1, unhealthy |-> 0, abort |-> FALSE,
          status |-> [tag |-> "healthy", msg |-> ""]]
    ELSE [healthy |-> 0, unhealthy |-> 1, abort |-> FALSE,
          status |-> [tag |-> "unhealthy", msg |-> ""]]

\* the handler calls sensor.read() on the instance at position pos; `late`
\* records a call made after the teardown loop has called a cleanup()
StartRead(req, pos) ==
    [req EXCEPT !.pc = "reading", !.pos = pos,
                !.reads = Append(@, sensors[pos].val),
                !.late = @ \/ cleanupLog # <<>>]

\* the return statement of check_health / health_check
FinishHealth(req) ==
    LET overall_status == OverallStatus(req.healthy, req.unhealthy) IN
    [req EXCEPT !.pc = "done", !.overall = overall_status,
                !.total = Len(sensors),
                !.code = IF overall_status = "healthy" THEN 200 ELSE 503]

Reply(req, code) == [req EXCEPT !.pc = "done", !.code = code]

\* positions of the registry whose instance reports type 'DHT22'
LegacyMatches ==
    {p \in 1..Len(sensors) : get_info(config, sensors[p].val).type = "DHT22"}

FirstOf(S) == CHOOSE p \in S : \A q \in S : p <= q

\* a handler from its first statement to its first sensor.read() or its return
HandlerStart(req) ==
    IF req.kind = "health"
    THEN IF Len(sensors) = 0 THEN FinishHealth(req) ELSE StartRead(req, 1)
    ELSE IF ~verify_api_key(req.cred) THEN Reply(req, 401)
    ELSE CASE req.kind = "list" ->
                Reply([req EXCEPT !.infos = Len(sensors)], 200)
           [] req.kind = "data" ->
                IF req.target \notin Keys(sensors) THEN Reply(req, 404)
                ELSE StartRead(req, PosOf(sensors, req.target))
           [] req.kind = "info" ->
                IF req.target \notin Keys(sensors) THEN Reply(req, 404)
                ELSE Reply([req EXCEPT !.infos = 1], 200)
           [] req.kind = "legacy" ->
                IF LegacyMatches = {}
                THEN Reply([req EXCEPT !.infos = Len(sensors)], 404)
                ELSE StartRead([req EXCEPT !.infos = FirstOf(LegacyMatches)],
                               FirstOf(LegacyMatches))

\* a handler from the return of sensor.read() to its next read or its return
HandlerResume(req, res) ==
    IF req.kind = "health"
    THEN LET h    == HealthOutcome(res)
             req1 == [req EXCEPT !.healthy = @ + h.healthy,
                                 !.unhealthy = @ + h.unhealthy,
                                 !.raisedSeen = @ \/ res.raised,
                                 !.status = DictSet(@, sensors[req.pos].key, h.status)]
         IN IF h.abort THEN Reply([req EXCEPT !.raisedSeen = TRUE], 500)
            ELSE IF req.pos < Len(sensors) THEN StartRead(req1, req.pos + 1)
            ELSE FinishHealth(req1)
    ELSE IF res.raised THEN Reply([req EXCEPT !.raisedSeen = TRUE], 500)
    ELSE IF res.success THEN Reply(req, 200)
    ELSE Reply(req, 500)

TargetsOf(kind) == IF kind \in {"data", "info"} THEN Targets ELSE {"ghost"}

\* a request arrives and its handler starts.  Flask's server handles each
\* request on its own thread; FastAPI runs the async handlers, which never
\* await, one at a time on the event loop.
Handle(r, kind, cred, target) ==
    /\ phase = "serving"
    /\ reqs[r].pc = "idle"
    /\ \A q \in Reqs : q < r => reqs[q].pc # "idle"
    /\ frontend = "fastapi" => \A q \in Reqs : ~Reading(q)
    /\ reqs' = [reqs EXCEPT ![r] =
                  HandlerStart([IdleReq EXCEPT !.kind = kind, !.cred = cred,
                                               !.target = target])]
    /\ UNCHANGED <<frontend, config, phase, sensors, created, cleanupPos, cleanupLog>>

\* sensor.read() returns to the handler of request r
ReadReturn(r, outcome) ==
    /\ Reading(r)
    /\ phase \in {"serving", "teardown"}
    /\ reqs' = [reqs EXCEPT ![r] = HandlerResume(reqs[r], DHT22Sensor_read(outcome))]
    /\ UNCHANGED <<frontend, config, phase, sensors, created, cleanupPos, cleanupLog>>

\* the response of request r is sent and its handler's frame is gone
Respond(r) ==
    /\ reqs[r].pc = "done"
    /\ phase \in {"serving", "teardown"}
    /\ reqs' = [reqs EXCEPT ![r] = IdleReq]
    /\ UNCHANGED <<frontend, config, phase, sensors, created, cleanupPos, cleanupLog>>

Init == InitWith(SeqsUpTo(SensorSpecs, MaxSensors))

Next ==
    \/ load_sensors
    \/ \E r \in Reqs, kind \in Kinds, cred \in Credentials :
         \E target \in TargetsOf(kind) : Handle(r, kind, cred, target)
    \/ \E r \in Reqs, outcome \in DriverOutcomes : ReadReturn(r, outcome)
    \/ \E r \in Reqs : Respond(r)
    \/ Shutdown
    \/ \E exitOk \in BOOLEAN : CleanupStep(exitOk)

Spec == Init /\ [][Next]_vars

\* the service with one request in the server at a time
NoneInServer == \A q \in Reqs : reqs[q].pc = "idle"

NextSeq ==
    \/ load_sensors
    \/ \E r \in Reqs, kind \in Kinds, cred \in Credentials :
         \E target \in TargetsOf(kind) : NoneInServer /\ Handle(r, kind, cred, target)
    \/ \E r \in Reqs, outcome \in DriverOutcomes : ReadReturn(r, outcome)
    \/ \E r \in Reqs : Respond(r)
    \/ Shutdown
    \/ \E exitOk \in BOOLEAN : CleanupStep(exitOk)

SpecSeq == Init /\ [][NextSeq]_vars

InitLife == InitWith(SeqsUpTo(SensorSpecs, MaxSpecs))

NextLife ==
    \/ load_sensors
    \/ Shutdown
    \/ \E exitOk \in BOOLEAN : CleanupStep(exitOk)

SpecLife == InitLife /\ [][NextLife]_vars

\* ================================================================ claims
HealthDone(r) == reqs[r].pc = "done" /\ reqs[r].kind = "health"

CountTag(req, tag) ==
    Cardinality({i \in 1..Len(req.status) : req.status[i].val.tag = tag})

\* C1: a finished health check reports 'healthy' when no sensor was counted
\* unhealthy, 'degraded' when at least one sensor was healthy and at least one
\* unhealthy, and 'unhealthy' when none was healthy and at least one unhealthy.
C1_HealthRollup ==
    \A r \in Reqs : HealthDone(r) =>
        LET h == CountTag(reqs[r], "healthy")
            u == Len(reqs[r].status) - h
        IN /\ u = 0 => reqs[r].overall = "healthy"
           /\ (h > 0 /\ u > 0) => reqs[r].overall = "degraded"
           /\ (h = 0 /\ u > 0) => reqs[r].overall = "unhealthy"

C1_Witness ==
    \E r \in Reqs : /\ HealthDone(r)
                    /\ CountTag(reqs[r], "healthy") > 0
                    /\ CountTag(reqs[r], "unhealthy") > 0
                    /\ reqs[r].overall = "degraded"

\* C2 as stated: with an empty registry the health check reports 'unhealthy'
\* with summary total = 0, healthy = 0, unhealthy = 0.
C2_EmptyIsUnhealthy ==
    \A r \in Reqs : (HealthDone(r) /\ Len(sensors) = 0) =>
        /\ reqs[r].overall = "unhealthy"
        /\ reqs[r].total = 0 /\ reqs[r].healthy = 0 /\ reqs[r].unhealthy = 0

\* C2 as amended: with an empty registry the health check reports 'healthy'
\* (HTTP 200) with summary total = 0, healthy = 0, unhealthy = 0.
C2_EmptyIsHealthy ==
    \A r \in Reqs : (HealthDone(r) /\ Len(sensors) = 0) =>
        /\ reqs[r].overall = "healthy" /\ reqs[r].code = 200
        /\ reqs[r].total = 0 /\ reqs[r].healthy = 0 /\ reqs[r].unhealthy = 0

C2_Witness ==
    \E r \in Reqs : HealthDone(r) /\ Len(sensors) = 0 /\ Len(config) > 0

\* C4 as stated: no read() lets a fault escape to its caller, whatever the
\* driver raises (a RuntimeError without arguments included).
C4_ReadNeverRaises ==
    \A r \in Reqs : ~reqs[r].raisedSeen

\* C6: a request to a data endpoint whose credential is absent or wrong is
\* answered 401 with no read() and no get_info() made for it; only the health
\* endpoint reads without the configured credential.
C6_AuthBeforeAnyRead ==
    /\ \A r \in Reqs :
         (reqs[r].pc # "idle" /\ reqs[r].kind # "health" /\ reqs[r].cred # API_KEY) =>
            /\ reqs[r].pc = "done" /\ reqs[r].code = 401
            /\ reqs[r].reads = <<>> /\ reqs[r].infos = 0
    /\ \A r \in Reqs :
         (reqs[r].reads # <<>> /\ reqs[r].cred # API_KEY) => reqs[r].kind = "health"

C6_Witness ==
    \E r \in Reqs : /\ reqs[r].pc = "done" /\ reqs[r].kind = "data"
                    /\ reqs[r].cred = "none"
                    /\ reqs[r].target \in Keys(sensors)
                    /\ reqs[r].code = 401

\* C7 as stated: two requests are never inside read() of the same instance
\* at the same time.
C7_ReadsSerialized ==
    \A r1, r2 \in Reqs :
        (r1 # r2 /\ Reading(r1) /\ Reading(r2)) =>
            sensors[reqs[r1].pos].val # sensors[reqs[r2].pos].val

\* C8 as stated: no handler runs while the registry is being built, and no
\* handler calls read() or get_info() once teardown has begun calling
\* cleanup().
C8_HandlersWithinServing ==
    /\ \A r \in Reqs : reqs[r].pc # "idle" => phase # "loading"
    /\ \A r \in Reqs : ~reqs[r].late

\* C9: a health check reads every registered instance exactly once, in
\* registry order, and never aborts: a read that raises is counted unhealthy
\* with an 'error: <message>' status, the later sensors are still read, every
\* registered id gets one status, and healthy + unhealthy = total.
C9_HealthPassComplete ==
    \A r \in Reqs : reqs[r].kind = "health" =>
        /\ reqs[r].pc = "reading" =>
              /\ Len(reqs[r].reads) = reqs[r].pos
              /\ Len(reqs[r].status) = reqs[r].pos - 1
        /\ reqs[r].pc = "done" =>
              /\ reqs[r].code \in {200, 503}
              /\ reqs[r].reads = [i \in 1..Len(sensors) |-> sensors[i].val]
              /\ [i \in 1..Len(reqs[r].status) |-> reqs[r].status[i].key]
                    = [i \in 1..Len(sensors) |-> sensors[i].key]
              /\ reqs[r].total = Len(sensors)
              /\ reqs[r].healthy + reqs[r].unhealthy = reqs[r].total
              /\ reqs[r].healthy = CountTag(reqs[r], "healthy")
              /\ reqs[r].raisedSeen <=> CountTag(reqs[r], "error") > 0

C9_Witness ==
    \E r \in Reqs : /\ HealthDone(r)
                    /\ Len(reqs[r].status) >= 2
                    /\ reqs[r].status[1].val.tag = "error"
                    /\ reqs[r].status[2].val.tag = "healthy"

\* ---- registry load and teardown
Unknown(cfg, i)  == cfg[i].enabled /\ ResolveClass(cfg[i].type) = "ImportError"
Loadable(cfg, i) == cfg[i].enabled /\ cfg[i].type = "DHT22" /\ cfg[i].pinOk

ExactlyOneUnknown(cfg) ==
    /\ Cardinality({i \in 1..Len(cfg) : Unknown(cfg, i)}) = 1
    /\ \A i \in 1..Len(cfg) : cfg[i].type # "DHT22" => Unknown(cfg, i)

TheUnknown(cfg) == CHOOSE i \in 1..Len(cfg) : Unknown(cfg, i)

\* the members of a set of indices, in ascending order
RECURSIVE Ascending(_)
Ascending(S) ==
    IF S = {} THEN <<>>
    ELSE LET m == CHOOSE x \in S : \A y \in S : y <= x
         IN Append(Ascending(S \ {m}), m)

RECURSIVE FirstOccurrences(_)
FirstOccurrences(s) ==
    IF s = <<>> THEN <<>>
    ELSE LET front == FirstOccurrences(SubSeq(s, 1, Len(s) - 1))
             last  == s[Len(s)]
         IN IF \E i \in 1..Len(front) : front[i] = last THEN front
            ELSE Append(front, last)

Others(cfg) == Ascending({i \in 1..Len(cfg) : ~Unknown(cfg, i)})

OthersAllGood(cfg) ==
    /\ \A i \in 1..Len(cfg) : Unknown(cfg, i) \/ Loadable(cfg, i)
    /\ \A i, j \in 1..Len(cfg) :
         (i # j /\ ~Unknown(cfg, i) /\ ~Unknown(cfg, j)) => cfg[i].id # cfg[j].id

\* C3 as stated: when exactly one of the N specs has an unknown type tag, the
\* load does not raise and the registry holds N-1 entries, one per other spec,
\* in spec order.
C3_AllOthersRegistered ==
    (phase # "loading" /\ ExactlyOneUnknown(config)) =>
        /\ phase # "crashed"
        /\ Len(sensors) = Len(config) - 1
        /\ [p \in 1..Len(sensors) |-> sensors[p].val] = Others(config)

\* C3 as amended: when exactly one of the N specs has an unknown type tag, the
\* load does not raise, that spec creates no instance, and the registry's keys
\* are the identifiers of the other specs that are enabled and whose
\* constructor succeeds, each once, in order of first occurrence; it holds
\* N-1 entries, one per other spec in spec order, when every other spec is
\* enabled, constructs, and carries an identifier of its own.
C3_LoadSkipsOnlyFailures ==
    (phase # "loading" /\ ExactlyOneUnknown(config)) =>
        LET good == Ascending({i \in 1..Len(config) : Loadable(config, i)}) IN
        /\ phase # "crashed"
        /\ TheUnknown(config) \notin created
        /\ [p \in 1..Len(sensors) |-> sensors[p].key]
              = FirstOccurrences([k \in 1..Len(good) |-> config[good[k]].id])
        /\ \A p \in 1..Len(sensors) : config[sensors[p].val].id = sensors[p].key
        /\ OthersAllGood(config) =>
              /\ Len(sensors) = Len(config) - 1
              /\ [p \in 1..Len(sensors) |-> sensors[p].val] = Others(config)

C3_Witness ==
    /\ phase = "serving" /\ Len(config) = 3
    /\ ExactlyOneUnknown(config) /\ TheUnknown(config) = 2
    /\ OthersAllGood(config)
    /\ Len(sensors) = 2

\* C5: teardown calls cleanup() on every registered instance exactly once, in
\* registration order, and a cleanup whose release fails does not keep the
\* later instances from being cleaned up.
C5_TeardownCleansEachOnce ==
    /\ phase \in {"teardown", "stopped"} =>
          /\ Len(cleanupLog) = cleanupPos - 1
          /\ Len(cleanupLog) <= Len(sensors)
          /\ \A i \in 1..Len(cleanupLog) : cleanupLog[i].inst = sensors[i].val
          /\ \A i, j \in 1..Len(cleanupLog) :
                cleanupLog[i].inst = cleanupLog[j].inst => i = j
    /\ phase = "stopped" => Len(cleanupLog) = Len(sensors)

C5_Witness ==
    /\ phase = "stopped" /\ Len(sensors) >= 2
    /\ Len(cleanupLog) = Len(sensors)
    /\ ~cleanupLog[1].exitOk

\* C10 as stated: every instance created during load is held by the registry
\* under its own identifier and has cleanup() called on it at teardown, also
\* when two enabled specs share an identifier.
C10_EveryCreatedInstanceReleased ==
    phase = "stopped" =>
        \A i \in created :
            /\ \E p \in 1..Len(sensors) :
                  sensors[p].val = i /\ sensors[p].key = config[i].id
            /\ \E q \in 1..Len(cleanupLog) : cleanupLog[q].inst = i

====
